---- MODULE Spec2Model ----
(***************************************************************************)
(* Model of the useDatabase hook (database lifecycle, persistence, catalog *)
(* and query history) and of the App handlers that drive it.               *)
(*                                                                         *)
(* Every handler is one action.  A handler reads the React state through   *)
(* the closure of the render it was created in, so inside an action the    *)
(* closure values are the unprimed variables, while the effects of the     *)
(* setState calls and of the store writes are threaded through a record    *)
(* (see State) from one called function to the next.                       *)
(***************************************************************************)
EXTENDS Integers, Sequences, FiniteSets, TLC

VARIABLES
  now,                 \* Date.now()
  idbDatabases,        \* object store DATABASE_STORE: id -> {id, data}
  idbQueries,          \* object store QUERIES_STORE: id -> SavedQuery
  lastOpenedDatabase,  \* localStorage[LAST_DB_KEY]
  idb,                 \* the IndexedDB handle is open (SQL is set just before it)
  currentDb,           \* state of the engine instance held in currentDb
  currentDbId,
  tables,
  queryHistory,
  databases,
  leaked,              \* engine instances opened, never closed, no longer referenced
  storeFails,          \* the IndexedDB request that is rejected for now ("" for none)
  isExecuting,         \* App state: a handleExecuteQuery has not finished
  pending,             \* handleExecuteQuery calls that await IndexedDB, oldest first
  lastOp               \* the last handler that ran, its arguments and its outcome

vars == <<now, idbDatabases, idbQueries, lastOpenedDatabase, idb, currentDb,
          currentDbId, tables, queryHistory, databases, leaked, storeFails,
          isExecuting, pending, lastOp>>

-----------------------------------------------------------------------------
(* Bounds *)

MaxTime == 2         \* the clock runs over 1..MaxTime under Spec
MaxCatalogTime == 3  \* and over 1..MaxCatalogTime under SpecCatalog
MaxRows == 1         \* rows per user table
MaxPending == 2      \* handleExecuteQuery calls that await the store at a time
MaxLeaked == 1       \* leaked instances are counted up to MaxLeaked ("MaxLeaked or more")

Times == 1..(IF MaxTime > MaxCatalogTime THEN MaxTime ELSE MaxCatalogTime)

null == "null"                 \* localStorage.getItem of a missing key
nullDb == [closed |-> TRUE]    \* currentDb === null

DbId(t) == "db_" \o ToString(t)
AllDbIds == {DbId(t) : t \in Times}
DbIds == {DbId(t) : t \in 1..MaxTime}
\* requests to the object stores that can be rejected
StoreRequests == {"getAll databases", "get databases", "put databases",
                  "delete databases", "getAll queries"}
QueryIds == {ToString(t) : t \in 1..MaxTime}

\* names typed into the create-database form
Names == {"shop", "My Samples"}

\* statements submitted to execute
CreateT == "create table t(x INTEGER)"
DropT == "DROP TABLE t"
InsertT == "INSERT INTO t VALUES(1)"
SelectT == "SELECT * FROM t"
Select1 == "SELECT 1"
AttachExt == "ATTACH DATABASE 'f.db' AS ext"
AttachSamples == "attach database \"old.db\" as Samples"
AlterT == "ALTER TABLE t ADD y INTEGER"
DropInfo == "DROP TABLE database_info"
Garbage == "SELEC"
Statements == {CreateT, InsertT, SelectT, Select1, AttachExt, Garbage}

\* what the text-generation service answers: the request fails (network error
\* or a status that is not ok), or it returns a text
Responses ==
  {[ok |-> FALSE, text |-> ""], [ok |-> TRUE, text |-> ""],
   [ok |-> TRUE, text |-> "~~~sql\n~~~"], [ok |-> TRUE, text |-> "~~~sql\nSELECT 1\n~~~"],
   [ok |-> TRUE, text |-> " create table t(x INTEGER)\n"]}

\* what the editor holds when a request is submitted
EditorTexts == {"", Select1, InsertT}

\* every statement text and every database name that occurs in a run
DDLStatements == {CreateT, AlterT, InsertT, SelectT, Select1}
AllStatements == Statements \cup DDLStatements \cup {DropT, DropInfo, AttachSamples}
AllNames == Names \cup {"ext", "Samples"}

-----------------------------------------------------------------------------
(* String functions of the JavaScript runtime *)

UpperChars == <<"A","B","C","D","E","F","G","H","I","J","K","L","M",
                "N","O","P","Q","R","S","T","U","V","W","X","Y","Z">>
LowerChars == <<"a","b","c","d","e","f","g","h","i","j","k","l","m",
                "n","o","p","q","r","s","t","u","v","w","x","y","z">>
Digits == {"0","1","2","3","4","5","6","7","8","9"}

CharAt(s, i) == SubSeq(s, i, i)

lowerChar(c) ==
  IF \E i \in 1..26 : UpperChars[i] = c
  THEN LowerChars[CHOOSE i \in 1..26 : UpperChars[i] = c] ELSE c

upperChar(c) ==
  IF \E i \in 1..26 : LowerChars[i] = c
  THEN UpperChars[CHOOSE i \in 1..26 : LowerChars[i] = c] ELSE c

RECURSIVE toLowerCase(_)
toLowerCase(s) ==
  IF s = "" THEN "" ELSE lowerChar(CharAt(s, 1)) \o toLowerCase(SubSeq(s, 2, Len(s)))

RECURSIVE toUpperCase(_)
toUpperCase(s) ==
  IF s = "" THEN "" ELSE upperChar(CharAt(s, 1)) \o toUpperCase(SubSeq(s, 2, Len(s)))

includes(s, sub) ==
  \E i \in 1..(Len(s) - Len(sub) + 1) : SubSeq(s, i, i + Len(sub) - 1) = sub

isSpace(c) == c \in {" ", "\n", "\t"}
isWordChar(c) ==
  \/ \E i \in 1..26 : UpperChars[i] = c \/ LowerChars[i] = c
  \/ c \in Digits
  \/ c = "_"

RECURSIVE trimStart(_)
trimStart(s) ==
  IF s # "" /\ isSpace(CharAt(s, 1)) THEN trimStart(SubSeq(s, 2, Len(s))) ELSE s

RECURSIVE trimEnd(_)
trimEnd(s) ==
  IF s # "" /\ isSpace(CharAt(s, Len(s))) THEN trimEnd(SubSeq(s, 1, Len(s) - 1)) ELSE s

trim(s) == trimEnd(trimStart(s))

\* the test of the leading keyword without DROP
isDDLNoDrop(query) ==
  LET q == trim(query) IN
  \E kw \in {"CREATE", "ALTER"} :
     /\ Len(q) > Len(kw)
     /\ toUpperCase(SubSeq(q, 1, Len(kw))) = kw
     /\ isSpace(CharAt(q, Len(kw) + 1))

\* s.replace(/~~~sql|~~~/g, ''), where ~ stands for the back quote, which a
\* string of this language cannot hold
RECURSIVE stripFences(_)
stripFences(s) ==
  IF s = "" THEN ""
  ELSE IF Len(s) >= 6 /\ SubSeq(s, 1, 6) = "~~~sql" THEN stripFences(SubSeq(s, 7, Len(s)))
  ELSE IF Len(s) >= 3 /\ SubSeq(s, 1, 3) = "~~~" THEN stripFences(SubSeq(s, 4, Len(s)))
  ELSE CharAt(s, 1) \o stripFences(SubSeq(s, 2, Len(s)))

\* /^\s*(CREATE|DROP|ALTER)\s+/i.test(query.trim())
isDDL(query) ==
  LET q == trim(query) IN
  \E kw \in {"CREATE", "DROP", "ALTER"} :
     /\ Len(q) > Len(kw)
     /\ toUpperCase(SubSeq(q, 1, Len(kw))) = kw
     /\ isSpace(CharAt(q, Len(kw) + 1))

\* length of the longest prefix of s made of characters satisfying the class
RECURSIVE wordLen(_)
wordLen(s) ==
  IF s # "" /\ isWordChar(CharAt(s, 1)) THEN 1 + wordLen(SubSeq(s, 2, Len(s))) ELSE 0

RECURSIVE spaceLen(_)
spaceLen(s) ==
  IF s # "" /\ isSpace(CharAt(s, 1)) THEN 1 + spaceLen(SubSeq(s, 2, Len(s))) ELSE 0

RECURSIVE unquotedLen(_)
unquotedLen(s) ==
  IF s # "" /\ CharAt(s, 1) \notin {"'", "\""}
  THEN 1 + unquotedLen(SubSeq(s, 2, Len(s))) ELSE 0

\* the keyword kw (upper case) followed by at least one space, at the head of s:
\* the number of characters consumed, or 0
keywordLen(s, kw) ==
  IF Len(s) > Len(kw) /\ toUpperCase(SubSeq(s, 1, Len(kw))) = kw
     /\ spaceLen(SubSeq(s, Len(kw) + 1, Len(s))) > 0
  THEN Len(kw) + spaceLen(SubSeq(s, Len(kw) + 1, Len(s))) ELSE 0

\* one attempt of the pattern at the head of s: <<path, alias>> or <<>>.
\* The quantifiers of the pattern are greedy and the character classes it
\* puts next to each other are disjoint, so no backtracking changes the result.
attachAt(s) ==
  LET k1 == keywordLen(s, "ATTACH")
      s1 == SubSeq(s, k1 + 1, Len(s))
      k2 == keywordLen(s1, "DATABASE")
      s2 == SubSeq(s1, k2 + 1, Len(s1))
      p  == unquotedLen(SubSeq(s2, 2, Len(s2)))
      s3 == SubSeq(s2, p + 3, Len(s2))
      k3 == spaceLen(s3)
      s4 == SubSeq(s3, k3 + 1, Len(s3))
      k4 == keywordLen(s4, "AS")
      s5 == SubSeq(s4, k4 + 1, Len(s4))
      w  == wordLen(s5)
  IN IF /\ k1 > 0 /\ k2 > 0
        /\ s2 # "" /\ CharAt(s2, 1) \in {"'", "\""}
        /\ p > 0
        /\ Len(s2) >= p + 2 /\ CharAt(s2, p + 2) \in {"'", "\""}
        /\ k3 > 0 /\ k4 > 0 /\ w > 0
     THEN <<SubSeq(s2, 2, p + 1), SubSeq(s5, 1, w)>>
     ELSE <<>>

\* query.match(/ATTACH\s+DATABASE\s+['"]([^'"]+)['"]\s+AS\s+(\w+)/i):
\* the leftmost position where the pattern matches; <<>> when there is none
attachMatch(query) ==
  LET hits == {i \in 1..Len(query) : attachAt(SubSeq(query, i, Len(query))) # <<>>}
  IN IF hits = {} THEN <<>>
     ELSE attachAt(SubSeq(query, CHOOSE i \in hits : \A j \in hits : i <= j, Len(query)))

\* The functions above, tabulated once over the texts that occur in a run
isDDLOf == [q \in AllStatements |-> isDDL(q)]
attachMatchOf == [q \in AllStatements |-> attachMatch(q)]
trimOf == [q \in AllStatements |-> trim(q)]
toUpperCaseOf == [q \in AllStatements |-> toUpperCase(trim(q))]
toLowerCaseOf == [n \in AllNames |-> toLowerCase(n)]
includesSample == [n \in AllNames |-> includes(toLowerCaseOf[n], "sample")]

\* generateSQLQuery with the answer of the service: the error it throws, or
\* the text it returns
generateSQLQuery(response) ==
  IF ~response.ok \/ response.text = ""
  THEN [error |-> "Failed to generate SQL query. Please try again.", sql |-> ""]
  ELSE [error |-> "", sql |-> trim(stripFences(trim(response.text)))]

generatedOf == [response \in Responses |-> generateSQLQuery(response)]

-----------------------------------------------------------------------------
(* The embedded engine (sql.js): an instance is the content of one database *)

\* user tables the statements can name, in ORDER BY name order
TableOrder == <<"t">>

NoTables == [n \in {} |-> 0]

\* new SQL.Database()
newDatabase ==
  [infoTable |-> FALSE, info |-> {}, tables |-> NoTables, attached |-> {}]

\* a serialization that keeps the schema and loses the rows
exportNoRows(db) ==
  [infoTable |-> db.infoTable, info |-> db.info,
   tables |-> [n \in DOMAIN db.tables |-> [db.tables[n] EXCEPT !.rows = <<>>]]]

\* database.export() followed by Array.from: the serialized content; the
\* attached aliases belong to the connection and are not part of the file
export(db) == [infoTable |-> db.infoTable, info |-> db.info, tables |-> db.tables]

\* new SQL.Database(new Uint8Array(data))
Database(data) ==
  [infoTable |-> data.infoTable, info |-> data.info, tables |-> data.tables,
   attached |-> {}]

\* bytes that are not a database file.  at tells where the engine notices:
\* "open" when the constructor throws, "run" when the constructor returns an
\* instance and the first statement on it throws (the engine opens the file
\* lazily)
Thrower == {"open", "run"}
corrupt(at) == [corrupt |-> at]
isCorrupt(data) == \E at \in Thrower : data = corrupt(at)

\* CREATE TABLE [IF NOT EXISTS] database_info (...)
createInfoTable(db) == [db EXCEPT !.infoTable = TRUE]

\* INSERT INTO database_info (id, name, description, created_at, last_modified)
insertInfo(db, id, name, description, t) ==
  [db EXCEPT !.info = { r \in @ : r.id # id } \cup
     {[id |-> id, name |-> name, description |-> description,
       created_at |-> t, last_modified |-> t]}]

\* UPDATE database_info SET last_modified = ? WHERE id = ?
\* (the statement throws when the table does not exist)
updateLastModified(db, t, id) ==
  [db EXCEPT !.info = { IF r.id = id THEN [r EXCEPT !.last_modified = t] ELSE r : r \in @ }]

\* SELECT * FROM database_info WHERE id = ?
selectInfo(db, id) == { r \in db.info : r.id = id }

\* currentDb.exec(query): the diagnostic of a rejected statement, or the
\* content after it ran and whether it returned a row set.  sql.js returns
\* a result entry only for a statement that yields at least one row.
exec(db, query) ==
  LET u == toUpperCaseOf[query]
      rejected(msg) == [error |-> msg, db |-> db, rowset |-> FALSE, rowCount |-> 0]
      done(d, n) == [error |-> "", db |-> d, rowset |-> n > 0, rowCount |-> n]
      hasT == "t" \in DOMAIN db.tables
  IN CASE u = toUpperCaseOf[Select1] -> done(db, 1)
       [] u = toUpperCaseOf[CreateT] ->
            IF hasT THEN rejected("table t already exists")
            ELSE done([db EXCEPT !.tables = [n \in {"t"} |->
                        [columns |-> <<[name |-> "x", type |-> "INTEGER",
                                        nullable |-> TRUE, primaryKey |-> FALSE]>>,
                         rows |-> <<>>]]], 0)
       [] u = toUpperCaseOf[DropT] ->
            IF hasT THEN done([db EXCEPT !.tables = NoTables], 0)
            ELSE rejected("no such table: t")
       [] u = toUpperCaseOf[InsertT] ->
            IF ~hasT THEN rejected("no such table: t")
            ELSE IF Len(db.tables["t"].columns) # 1
            THEN rejected("table t has 2 columns but 1 values were supplied")
            ELSE done([db EXCEPT !.tables["t"].rows = Append(@, <<"1">>)], 0)
       [] u = toUpperCaseOf[AlterT] ->
            IF ~hasT THEN rejected("no such table: t")
            ELSE IF \E i \in 1..Len(db.tables["t"].columns) :
                       db.tables["t"].columns[i].name = "y"
            THEN rejected("duplicate column name: y")
            ELSE done([db EXCEPT
                   !.tables["t"].columns =
                      Append(@, [name |-> "y", type |-> "INTEGER",
                                 nullable |-> TRUE, primaryKey |-> FALSE]),
                   !.tables["t"].rows =
                      [i \in 1..Len(@) |-> Append(@[i], "NULL")]], 0)
       [] u = toUpperCaseOf[SelectT] ->
            IF hasT THEN done(db, Len(db.tables["t"].rows))
            ELSE rejected("no such table: t")
       [] u = toUpperCaseOf[DropInfo] ->
            IF db.infoTable THEN done([db EXCEPT !.infoTable = FALSE, !.info = {}], 0)
            ELSE rejected("no such table: database_info")
       [] u = toUpperCaseOf[AttachExt] ->
            IF "ext" \in db.attached THEN rejected("database ext is already in use")
            ELSE done([db EXCEPT !.attached = @ \cup {"ext"}], 0)
       [] u = toUpperCaseOf[AttachSamples] ->
            IF "Samples" \in db.attached THEN rejected("database Samples is already in use")
            ELSE done([db EXCEPT !.attached = @ \cup {"Samples"}], 0)
       [] OTHER -> rejected("near \"" \o query \o "\": syntax error")

-----------------------------------------------------------------------------
(* The durable store (IndexedDB object stores and localStorage) *)

NoRecords == [k \in {} |-> 0]

\* keys of an object store come back in key order
dbKeys == [t \in Times |-> DbId(t)]
queryKeys == [t \in Times |-> ToString(t)]

getAll(store, keys) ==
  LET present == SelectSeq(keys, LAMBDA k : k \in DOMAIN store)
  IN [i \in 1..Len(present) |-> store[present[i]]]

put(store, rec) == [k \in DOMAIN store \cup {rec.id} |-> IF k = rec.id THEN rec ELSE store[k]]

delete(store, key) == [k \in DOMAIN store \ {key} |-> store[k]]

\* Array.prototype.sort((a, b) => b.key - a.key): stable, descending
RECURSIVE insertDesc(_, _, _)
insertDesc(x, seq, key) ==
  IF seq = <<>> THEN <<x>>
  ELSE IF Head(seq)[key] >= x[key] THEN <<Head(seq)>> \o insertDesc(x, Tail(seq), key)
  ELSE <<x>> \o seq

RECURSIVE sortDesc(_, _)
sortDesc(seq, key) ==
  IF seq = <<>> THEN <<>>
  ELSE insertDesc(seq[Len(seq)], sortDesc(SubSeq(seq, 1, Len(seq) - 1), key), key)

-----------------------------------------------------------------------------
(* The state a handler works on.  Engine instances are objects: heap holds  *)
(* the instances the running handler can reach, currentDb is an index into  *)
(* it (0 for null).  The closure of the handler keeps index 1, the instance *)
(* that was current when the handler started.                               *)
(*                                                                          *)
(* A function of the hook takes the state and returns the state it leaves.  *)
(* Each of them evaluates the state it is given once, by binding it with    *)
(* s \in {state}, and Only takes the result out of the singleton.           *)

Only(S) == CHOOSE x \in S : TRUE

closureDb == IF currentDb = nullDb THEN 0 ELSE 1

State ==
  [idbDatabases |-> idbDatabases,
   idbQueries |-> idbQueries,
   lastOpenedDatabase |-> lastOpenedDatabase,
   heap |-> IF currentDb = nullDb THEN <<>> ELSE <<[db |-> currentDb, open |-> TRUE]>>,
   currentDb |-> closureDb,
   currentDbId |-> currentDbId,
   tables |-> tables,
   queryHistory |-> queryHistory,
   databases |-> databases,
   writes |-> <<>>,
   toasts |-> <<>>,
   failing |-> storeFails,
   failed |-> FALSE]

\* a request to the store was rejected: the await throws
threw(s) == [s EXCEPT !.failed = TRUE]

toast(s, kind, msg) == [s EXCEPT !.toasts = Append(@, <<kind, msg>>)]

wrote(s, kind, store, key) == [s EXCEPT !.writes = Append(@, <<kind, store, key>>)]

\* a constructor call: the new instance is the last one of the heap
alloc(s, db) == [s EXCEPT !.heap = Append(@, [db |-> db, open |-> TRUE])]

close(s, h) == [s EXCEPT !.heap[h].open = FALSE]

-----------------------------------------------------------------------------
(* useDatabase *)

\* the TableSchema list of an engine instance
tableSchemas(db) ==
  LET tableNames == SelectSeq(TableOrder, LAMBDA n : n \in DOMAIN db.tables)
  IN [i \in 1..Len(tableNames) |->
        [name |-> tableNames[i],
         columns |-> db.tables[tableNames[i]].columns,
         rowCount |-> Len(db.tables[tableNames[i]].rows)]]

loadTables(state, h) ==
  Only({ IF ~s.heap[h].open
         THEN toast(s, "error", "Failed to load database schema")
         ELSE [s EXCEPT !.tables = tableSchemas(s.heap[h].db)]
       : s \in {state} })

\* the filtered, sorted history of one database
dbQueries(queries, dbId) ==
  sortDesc(SelectSeq(getAll(queries, queryKeys), LAMBDA q : q.databaseId = dbId),
           "timestamp")

\* a reload that adds the filtered queries to the view instead of replacing it
loadQueryHistoryAppending(state, dbId) ==
  Only({ [s EXCEPT !.queryHistory = @ \o dbQueries(s.idbQueries, dbId)] : s \in {state} })

loadQueryHistory(state, dbId) ==
  Only({ IF s.failing = "getAll queries" THEN threw(s)
         ELSE [s EXCEPT !.queryHistory = dbQueries(s.idbQueries, dbId)]
       : s \in {state} })

\* indexedDB.put(DATABASE_STORE, { id: dbId, data: Array.from(database.export()) })
putDatabase(state, h, dbId) ==
  Only({ wrote([s EXCEPT !.idbDatabases =
                   put(@, [id |-> dbId, data |-> export(s.heap[h].db)])],
               "put", "databases", dbId)
       : s \in {state} })

saveDatabase(state, h, dbId) ==
  IF state.failing = "put databases"
  THEN toast(threw(state), "error", "Failed to save database")
  ELSE
  Only({ IF ~s1.heap[h].db.infoTable
         THEN toast(s1, "error", "Failed to save database")
         ELSE putDatabase([s1 EXCEPT !.heap[h].db = updateLastModified(@, now, dbId)],
                          h, dbId)
       : s1 \in {putDatabase(state, h, dbId)} })

loadDatabase(state, dbId) ==
  Only({ IF s.failing = "get databases"
         THEN toast(threw(s), "error", "Failed to load database")
         ELSE IF dbId \notin DOMAIN s.idbDatabases
         THEN toast(s, "error", "Failed to load database")
         ELSE loadQueryHistory(
                loadTables(
                  wrote([s EXCEPT !.heap = Append(@, [db |-> Database(s.idbDatabases[dbId].data),
                                                      open |-> TRUE]),
                                  !.currentDb = Len(s.heap) + 1,
                                  !.currentDbId = dbId,
                                  !.lastOpenedDatabase = dbId],
                        "setItem", "localStorage", "lastOpenedDatabase"),
                  Len(s.heap) + 1),
                dbId)
       : s \in {state} })

\* the loop of loadDatabaseList over the stored blobs; the transient instance
\* of each iteration is closed at the end of the iteration
RECURSIVE enhancedDbList(_)
enhancedDbList(allDatabases) ==
  IF allDatabases = <<>> THEN <<>>
  ELSE IF isCorrupt(Head(allDatabases).data) THEN enhancedDbList(Tail(allDatabases))
  ELSE LET dbData == Head(allDatabases)
           result == selectInfo(createInfoTable(Database(dbData.data)), dbData.id)
       IN (IF result # {}
           THEN LET row == CHOOSE r \in result : TRUE
                IN <<[id |-> row.id, name |-> row.name, description |-> row.description,
                      createdAt |-> row.created_at, lastModified |-> row.last_modified]>>
           ELSE <<>>)
          \o enhancedDbList(Tail(allDatabases))

\* the filter without the sort that follows it
filterDatabasesUnsorted(list) ==
  SelectSeq(list, LAMBDA db : /\ db.id # "default"
                              /\ db.id # "sample"
                              /\ ~includesSample[db.name])

\* the instances the loop leaves open: an iteration that throws after the
\* constructor has returned does not reach database.close()
RECURSIVE leftOpen(_, _)
leftOpen(state, allDatabases) ==
  IF allDatabases = <<>> THEN state
  ELSE leftOpen(IF Head(allDatabases).data = corrupt("run")
                THEN alloc(state, Head(allDatabases).data) ELSE state,
                Tail(allDatabases))

filterDatabases(list) ==
  sortDesc(SelectSeq(list, LAMBDA db : /\ db.id # "default"
                                       /\ db.id # "sample"
                                       /\ ~includesSample[db.name]),
           "lastModified")

\* the selection logic without the remembered last-opened id
targetDbIdNoLastOpened(filteredDatabases, lastOpenedDbId, cur) ==
  LET ids == {filteredDatabases[i].id : i \in 1..Len(filteredDatabases)}
  IN IF cur # "" /\ cur \in ids THEN cur ELSE filteredDatabases[1].id

\* the selection logic of loadDatabaseList; cur is the currentDbId of its closure
targetDbId(filteredDatabases, lastOpenedDbId, cur) ==
  LET ids == {filteredDatabases[i].id : i \in 1..Len(filteredDatabases)}
  IN IF lastOpenedDbId # null /\ lastOpenedDbId # "" /\ lastOpenedDbId \in ids
     THEN lastOpenedDbId
     ELSE IF cur # "" /\ cur \in ids THEN cur
     ELSE filteredDatabases[1].id

\* clearing the selection but keeping the table list and the history
clearSelectionIdOnly(s) == [s EXCEPT !.currentDbId = "", !.currentDb = 0]

\* the branch of loadDatabaseList for an empty list
clearSelection(s) ==
  [s EXCEPT !.currentDbId = "", !.currentDb = 0, !.tables = <<>>, !.queryHistory = <<>>]

loadDatabaseList(state, cur) ==
  IF state.failing = "getAll databases" THEN threw(state) ELSE
  Only({ IF Len(s.databases) = 0
         THEN clearSelection(s)
         ELSE Only({ IF target # cur THEN loadDatabase(s, target) ELSE s
                   : target \in {targetDbId(s.databases, s.lastOpenedDatabase, cur)} })
       : s \in { [s0 EXCEPT !.databases =
                    filterDatabases(enhancedDbList(getAll(s0.idbDatabases, dbKeys)))]
                 : s0 \in {leftOpen(state, getAll(state.idbDatabases, dbKeys))} } })

switchDatabase(state, dbId) ==
  toast(loadDatabase(state, dbId), "success", "Database switched successfully")

\* createNewDatabase without the final switchDatabase(dbId)
createNewDatabaseNoSwitch(state, name, description) ==
  Only({ toast(loadDatabaseList(saveDatabase(s, Len(s.heap), DbId(now)), currentDbId),
               "success", "Database \"" \o name \o "\" created successfully")
       : s \in {alloc(state, insertInfo(createInfoTable(newDatabase),
                                        DbId(now), name, description, now))} })

createNewDatabase(state, name, description) ==
  Only({ toast(
           switchDatabase(
             loadDatabaseList(saveDatabase(s, Len(s.heap), DbId(now)), currentDbId),
             DbId(now)),
           "success", "Database \"" \o name \o "\" created successfully")
       : s \in {alloc(state, insertInfo(createInfoTable(newDatabase),
                                        DbId(now), name, description, now))} })

\* deleteDatabase without the cascade to the saved queries
deleteQueriesNone(state, queriesToDelete) == state

RECURSIVE deleteQueries(_, _)
deleteQueries(state, queriesToDelete) ==
  IF queriesToDelete = <<>> THEN state
  ELSE deleteQueries(
         wrote([state EXCEPT !.idbQueries = delete(@, Head(queriesToDelete).id)],
               "delete", "queries", Head(queriesToDelete).id),
         Tail(queriesToDelete))

\* deleteDatabase without the removal of the last-opened record
deleteDatabaseKeepLastOpened(state, dbId) ==
  IF state.failing = "delete databases"
  THEN toast(threw(state), "error", "Failed to delete database")
  ELSE IF state.failing = "getAll queries"
  THEN toast(threw(wrote([state EXCEPT !.idbDatabases = delete(@, dbId)],
                         "delete", "databases", dbId)),
             "error", "Failed to delete database")
  ELSE
  Only({ toast(
           loadDatabaseList(
             s,
             currentDbId),
           "success", "Database deleted successfully")
       : s \in { deleteQueries(s1, SelectSeq(getAll(s1.idbQueries, queryKeys),
                                             LAMBDA q : q.databaseId = dbId))
                 : s1 \in {wrote([state EXCEPT !.idbDatabases = delete(@, dbId)],
                                 "delete", "databases", dbId)} } })

deleteDatabase(state, dbId) ==
  IF state.failing = "delete databases"
  THEN toast(threw(state), "error", "Failed to delete database")
  ELSE IF state.failing = "getAll queries"
  THEN toast(threw(wrote([state EXCEPT !.idbDatabases = delete(@, dbId)],
                         "delete", "databases", dbId)),
             "error", "Failed to delete database")
  ELSE
  Only({ toast(
           loadDatabaseList(
             IF s.lastOpenedDatabase = dbId
             THEN wrote([s EXCEPT !.lastOpenedDatabase = null],
                        "removeItem", "localStorage", "lastOpenedDatabase")
             ELSE s,
             currentDbId),
           "success", "Database deleted successfully")
       : s \in { deleteQueries(s1, SelectSeq(getAll(s1.idbQueries, queryKeys),
                                             LAMBDA q : q.databaseId = dbId))
                 : s1 \in {wrote([state EXCEPT !.idbDatabases = delete(@, dbId)],
                                 "delete", "databases", dbId)} } })

\* the ATTACH branch without the reload of the database list
attachDatabaseNoList(state, m, cur) ==
  Only({ close(saveDatabase(s, Len(s.heap), DbId(now)), Len(s.heap))
       : s \in {alloc(state, insertInfo(createInfoTable(newDatabase), DbId(now), m[2],
                                        "Attached from " \o m[1], now))} })

\* the ATTACH branch of executeQuery; m is the match <<dbPath, dbAlias>>, cur
\* the currentDbId of the closure
attachDatabase(state, m, cur) ==
  Only({ close(loadDatabaseList(saveDatabase(s, Len(s.heap), DbId(now)), cur),
               Len(s.heap))
       : s \in {alloc(state, insertInfo(createInfoTable(newDatabase), DbId(now), m[2],
                                        "Attached from " \o m[1], now))} })

\* the save, schema reload and catalog reload that follow a statement; h is
\* the currentDb and cur the currentDbId of the closure
afterStatement(state, h, cur) ==
  loadDatabaseList(loadTables(saveDatabase(state, h, cur), h), cur)

\* what executeQuery throws: new Error(message)
thrown(state, message, executed) ==
  [s |-> state, error |-> message, executed |-> executed, rowset |-> FALSE, rowCount |-> 0]

\* the try block saving the database before it reports a rejected statement
executeStatementSaveFirst(state, query) ==
  Only({ IF result.error # ""
         THEN thrown(saveDatabase(state, closureDb, currentDbId), result.error, TRUE)
         ELSE [s |-> afterStatement([state EXCEPT !.heap[closureDb].db = result.db],
                                    closureDb, currentDbId),
               error |-> "", executed |-> TRUE,
               rowset |-> result.rowset, rowCount |-> result.rowCount]
       : result \in {exec(state.heap[closureDb].db, query)} })

\* the try block of executeQuery after currentDb.exec(query) has returned
\* result and left the instance as state has it: the state the rest of the
\* block leaves and what it returns; h is the currentDb and cur the
\* currentDbId of the closure
afterExec(state, query, result, h, cur) ==
  Only({ [s |-> IF ~result.rowset
                THEN (IF isDDLOf[query] /\ idb THEN afterStatement(s2, h, cur) ELSE s2)
                ELSE afterStatement(s2, h, cur),
          error |-> "", executed |-> TRUE,
          rowset |-> result.rowset, rowCount |-> result.rowCount]
       : s2 \in { IF attachMatchOf[query] # <<>> /\ idb
                  THEN attachDatabase(s1, attachMatchOf[query], cur)
                  ELSE s1
                  : s1 \in {state} } })

\* the rest of the block awaits a request to the store
awaitsStore(query, result) ==
  /\ result.error = ""
  /\ idb
  /\ result.rowset \/ isDDLOf[query] \/ attachMatchOf[query] # <<>>

\* the try block of executeQuery: the state it leaves and what it returns or throws
executeStatement(state, query) ==
  Only({ IF result.error # ""
         THEN thrown(state, result.error, TRUE)
         ELSE afterExec([state EXCEPT !.heap[closureDb].db = result.db], query, result,
                        closureDb, currentDbId)
       : result \in {exec(state.heap[closureDb].db, query)} })

\* executeQuery returning an empty result when no database is selected
executeQueryNoGuard(state, query) ==
  IF closureDb = 0
  THEN [s |-> state, error |-> "", executed |-> FALSE, rowset |-> FALSE, rowCount |-> 0]
  ELSE executeStatement(state, query)

executeQuery(state, query) ==
  IF closureDb = 0
  THEN thrown(state, "No database selected", FALSE)
  ELSE executeStatement(state, query)

\* saveQuery without the reload of the history view
saveQueryNoReload(state, query, description) ==
  IF currentDbId = "" THEN state ELSE
  toast(
    wrote([state EXCEPT !.idbQueries =
             put(@, [id |-> ToString(now), query |-> query, timestamp |-> now,
                     description |-> description, isFavorite |-> FALSE,
                     databaseId |-> currentDbId])],
          "put", "queries", ToString(now)),
    "success", "Query saved successfully")

saveQuery(state, query, description) ==
  IF currentDbId = "" THEN state ELSE
  toast(
    loadQueryHistory(
      wrote([state EXCEPT !.idbQueries =
               put(@, [id |-> ToString(now), query |-> query, timestamp |-> now,
                       description |-> description, isFavorite |-> FALSE,
                       databaseId |-> currentDbId])],
            "put", "queries", ToString(now)),
      currentDbId),
    "success", "Query saved successfully")

\* toggleFavorite storing a favourite under queryId when no query is stored
\* under it
toggleFavoriteUpsert(state, queryId) ==
  loadQueryHistory(
    wrote([state EXCEPT !.idbQueries =
             put(@, IF queryId \in DOMAIN state.idbQueries
                    THEN [state.idbQueries[queryId] EXCEPT !.isFavorite = ~@]
                    ELSE [id |-> queryId, query |-> "", timestamp |-> now,
                          description |-> null, isFavorite |-> TRUE,
                          databaseId |-> currentDbId])],
          "put", "queries", queryId),
    currentDbId)

\* toggleFavorite storing isFavorite = true instead of the negation
toggleFavoriteSetTrue(state, queryId) ==
  IF queryId \notin DOMAIN state.idbQueries THEN state
  ELSE loadQueryHistory(
         wrote([state EXCEPT !.idbQueries =
                  put(@, [state.idbQueries[queryId] EXCEPT !.isFavorite = TRUE])],
               "put", "queries", queryId),
         currentDbId)

toggleFavorite(state, queryId) ==
  IF queryId \notin DOMAIN state.idbQueries THEN state
  ELSE loadQueryHistory(
         wrote([state EXCEPT !.idbQueries =
                  put(@, [state.idbQueries[queryId] EXCEPT !.isFavorite = ~@])],
               "put", "queries", queryId),
         currentDbId)

deleteQuery(state, queryId) ==
  toast(
    loadQueryHistory(
      wrote([state EXCEPT !.idbQueries = delete(@, queryId)], "delete", "queries", queryId),
      currentDbId),
    "success", "Query deleted successfully")

-----------------------------------------------------------------------------
(* Actions: one per handler *)

\* what lastOp records: the handler, the database id it was about (the id
\* passed to it, the id it generated, or the currentDbId of its closure), its
\* other arguments, the error it threw or reported, whether the statement
\* reached the engine, whether a row set came back, the store writes and
\* notifications it made, in order; for a switch, also whether it ran right
\* after a call of the saveDatabase the hook returns, made for the same id;
\* for a handler of the history, the id of the saved query it was about; for
\* a natural-language request, the text generateSQLQuery returned
Op(op, dbId, name, query, error, executed, rowset, s) ==
  [op |-> op, dbId |-> dbId, name |-> name, query |-> query, error |-> error,
   executed |-> executed, rowset |-> rowset, writes |-> s.writes, toasts |-> s.toasts,
   afterSave |-> FALSE, queryId |-> "", failed |-> s.failed, generated |-> ""]

\* instances the handler leaves open without keeping a reference to them
unreferenced(s) == Cardinality({h \in 1..Len(s.heap) : s.heap[h].open /\ h # s.currentDb})

\* the state the next render sees once the handler has finished
Render(s, op) ==
  /\ idbDatabases' = s.idbDatabases
  /\ idbQueries' = s.idbQueries
  /\ lastOpenedDatabase' = s.lastOpenedDatabase
  /\ currentDb' = IF s.currentDb = 0 THEN nullDb ELSE s.heap[s.currentDb].db
  /\ currentDbId' = s.currentDbId
  /\ tables' = s.tables
  /\ queryHistory' = s.queryHistory
  /\ databases' = s.databases
  /\ leaked' = IF leaked + unreferenced(s) > MaxLeaked THEN MaxLeaked
               ELSE leaked + unreferenced(s)
  /\ lastOp' = op
  /\ UNCHANGED <<now, idb, storeFails>>

\* the pending handlers once the handler has finished: a pending handler keeps
\* the instance and the id of its closure when the handler replaced them
detached(s) ==
  [i \in 1..Len(pending) |->
     IF pending[i].current /\ s.currentDb # closureDb
     THEN [pending[i] EXCEPT !.current = FALSE, !.db = s.heap[closureDb].db]
     ELSE pending[i]]

Commit(s, op) == Render(s, op) /\ pending' = detached(s) /\ UNCHANGED isExecuting

\* the end of the App wrappers of create, switch and delete: the UI state is
\* reset, setIsExecuting(false) included
Reset(s, op) == Render(s, op) /\ pending' = detached(s) /\ isExecuting' = FALSE

Init ==
  /\ now = 1
  /\ idbDatabases = NoRecords
  /\ idbQueries = NoRecords
  /\ lastOpenedDatabase = null
  /\ idb = FALSE
  /\ currentDb = nullDb
  /\ currentDbId = ""
  /\ tables = <<>>
  /\ queryHistory = <<>>
  /\ databases = <<>>
  /\ leaked = 0
  /\ storeFails = ""
  /\ isExecuting = FALSE
  /\ pending = <<>>
  /\ lastOp = [op |-> "none", dbId |-> "", name |-> "", query |-> "", error |-> "",
               executed |-> FALSE, rowset |-> FALSE, writes |-> <<>>, toasts |-> <<>>,
               afterSave |-> FALSE, queryId |-> "", failed |-> FALSE, generated |-> ""]

\* Date.now() advances
Advance(limit) ==
  /\ now < limit
  /\ now' = now + 1
  /\ UNCHANGED <<idbDatabases, idbQueries, lastOpenedDatabase, idb, currentDb,
                 currentDbId, tables, queryHistory, databases, leaked, storeFails,
          isExecuting, pending, lastOp>>

Tick == Advance(MaxTime)

TickCatalog == Advance(MaxCatalogTime)

\* the page is closed and opened again: the stores survive, the React state
\* and every engine instance do not
Reload ==
  /\ idb
  /\ idb' = FALSE
  /\ currentDb' = nullDb
  /\ currentDbId' = ""
  /\ tables' = <<>>
  /\ queryHistory' = <<>>
  /\ databases' = <<>>
  /\ leaked' = 0
  /\ isExecuting' = FALSE
  /\ pending' = <<>>
  /\ lastOp' = Op("reload", "", "", "", "", FALSE, FALSE, [writes |-> <<>>, toasts |-> <<>>, failed |-> FALSE])
  /\ UNCHANGED <<now, idbDatabases, idbQueries, lastOpenedDatabase, storeFails>>

\* the mount effect: opens the stores and loads the database list
InitializeDatabase ==
  /\ ~idb
  /\ idb' = TRUE
  /\ \E s \in {loadDatabaseList(State, currentDbId)} :
        /\ idbDatabases' = s.idbDatabases
        /\ idbQueries' = s.idbQueries
        /\ lastOpenedDatabase' = s.lastOpenedDatabase
        /\ currentDb' = IF s.currentDb = 0 THEN nullDb ELSE s.heap[s.currentDb].db
        /\ currentDbId' = s.currentDbId
        /\ tables' = s.tables
        /\ queryHistory' = s.queryHistory
        /\ databases' = s.databases
        /\ leaked' = IF unreferenced(s) > MaxLeaked THEN MaxLeaked ELSE unreferenced(s)
        /\ lastOp' = Op("initializeDatabase", "", "", "", "", FALSE, FALSE, s)
  /\ UNCHANGED <<now, storeFails, isExecuting, pending>>

CreateNewDatabase(name) ==
  /\ idb
  /\ \E s \in {createNewDatabase(State, name, null)} :
        Reset(s, Op("createNewDatabase", DbId(now), name, "", "", FALSE, FALSE, s))

\* App.handleSwitchDatabase
SwitchDatabase(dbId) ==
  /\ idb
  /\ \E s \in {switchDatabase(State, dbId)} :
        Reset(s, [Op("switchDatabase", dbId, "", "", "", FALSE, FALSE, s)
                     EXCEPT !.afterSave = (lastOp.op = "saveDatabase" /\ lastOp.dbId = dbId)])

DeleteDatabase(dbId) ==
  /\ idb
  /\ \E s \in {deleteDatabase(State, dbId)} :
        Reset(s, Op("deleteDatabase", dbId, "", "", "", FALSE, FALSE, s))

\* the model keeps a user table within MaxRows rows
withinRows(query) ==
  toUpperCaseOf[query] = toUpperCaseOf[InsertT] /\ currentDb # nullDb
  /\ "t" \in DOMAIN currentDb.tables
    => Len(currentDb.tables["t"].rows) < MaxRows

\* what handleExecuteQuery does once executeQuery has returned r
refreshed(r, h) ==
  toast(IF h # 0 THEN loadTables(r.s, h) ELSE r.s,
        "success",
        IF r.rowCount > 0
        THEN "Query executed successfully! " \o ToString(r.rowCount) \o " rows returned."
        ELSE "Query executed successfully!")

\* App.handleExecuteQuery(queryToExecute) while the editor holds currentQuery:
\* the state it leaves, the statement it took, the error it caught
handleExecuteQuery(state, queryToExecute, currentQuery) ==
  Only({ IF query = "" \/ trimOf[query] = ""
         THEN [s |-> state, query |-> query, error |-> "", executed |-> FALSE,
               rowset |-> FALSE]
         ELSE Only({ [s |-> IF r.error = "" THEN refreshed(r, closureDb)
                            ELSE toast(r.s, "error", "Query execution failed"),
                      query |-> query, error |-> r.error, executed |-> r.executed,
                      rowset |-> r.rowset]
                   : r \in {executeQuery(state, query)} })
       : query \in {IF queryToExecute # "" THEN queryToExecute ELSE currentQuery} })

\* the Execute button, with the statement the editor holds
HandleExecuteQuery(query) ==
  /\ idb
  /\ trimOf[query] # ""
  /\ withinRows(query)
  /\ \E r \in {handleExecuteQuery(State, "", query)} :
        /\ Render(r.s, Op("executeQuery", currentDbId, "", query, r.error, r.executed,
                          r.rowset, r.s))
        /\ isExecuting' = FALSE
        /\ pending' = detached(r.s)

\* handleExecuteQuery up to the first request to the store it awaits: the
\* statement has run on the instance, the rest of the handler is pending
BeginExecuteQuery(query) ==
  /\ idb
  /\ trimOf[query] # ""
  /\ withinRows(query)
  /\ closureDb # 0
  /\ Len(pending) < MaxPending
  /\ \E result \in {exec(currentDb, query)} :
        /\ awaitsStore(query, result)
        /\ currentDb' = result.db
        /\ pending' = Append(pending, [query |-> query, rowset |-> result.rowset,
                                       rowCount |-> result.rowCount,
                                       dbId |-> currentDbId, current |-> TRUE,
                                       db |-> result.db])
  /\ isExecuting' = TRUE
  /\ UNCHANGED <<now, idbDatabases, idbQueries, lastOpenedDatabase, idb, currentDbId,
                 tables, queryHistory, databases, leaked, storeFails, lastOp>>

\* the requests of a pending handleExecuteQuery complete and it runs to its
\* end, with the instance and the id of its closure.  An instance that is no
\* longer the current one was counted in leaked when it was replaced.
FinishExecuteQuery(i) ==
  /\ i \in 1..Len(pending)
  /\ \E e \in {pending[i]} :
     \E st \in {IF e.current THEN State ELSE alloc(State, e.db)} :
     \E h \in {IF e.current THEN closureDb ELSE Len(st.heap)} :
     \E r \in {afterExec(st, e.query,
                          [error |-> "", rowset |-> e.rowset, rowCount |-> e.rowCount],
                          h, e.dbId)} :
     \E s \in {IF e.current THEN refreshed(r, h) ELSE close(refreshed(r, h), h)} :
        /\ Render(s, Op("executeQuery", e.dbId, "", e.query, "", TRUE, r.rowset, s))
        /\ pending' = SubSeq(detached(s), 1, i - 1)
                         \o SubSeq(detached(s), i + 1, Len(pending))
  /\ isExecuting' = FALSE

\* a way to submit the statement of the editor: the handler runs to its end
\* unless it has to await the store
StartExecute(query) ==
  \E awaits \in {closureDb # 0
                  /\ Only({ awaitsStore(query, result)
                           : result \in {exec(currentDb, query)} })} :
    IF awaits THEN BeginExecuteQuery(query) ELSE HandleExecuteQuery(query)

\* the ways the user submits a statement
Ways == {"button", "enter", "table"}

\* one submission: the Execute button is disabled while isExecuting; the Enter
\* key in the editor (SqlEditor.handleKeyDown) is not; a click on a table of
\* the schema browser (App.handleTableSelect) submits SELECT * FROM that table
SubmitStatement(way, query) ==
  /\ CASE way = "button" -> ~isExecuting
       [] way = "enter" -> TRUE
       [] way = "table" -> \E i \in 1..Len(tables) :
                              query = "SELECT * FROM " \o tables[i].name
  /\ StartExecute(query)

\* App.handleNaturalLanguageQuery, with the answer of the service and the
\* statement the editor holds
HandleNaturalLanguageQuery(response, currentQuery) ==
  /\ idb
  /\ \E g \in {generatedOf[response]} :
     \E query \in {IF g.sql # "" THEN g.sql ELSE currentQuery} :
       /\ query # "" => withinRows(query)
       /\ \E r \in {IF currentDbId = ""
                     THEN [s |-> toast(State, "error",
                                       "Please create or select a database first"),
                           query |-> "", error |-> "", executed |-> FALSE,
                           rowset |-> FALSE, generated |-> ""]
                     ELSE IF g.error # ""
                     THEN [s |-> toast(State, "error", g.error), query |-> "",
                           error |-> g.error, executed |-> FALSE, rowset |-> FALSE,
                           generated |-> ""]
                     ELSE Only({ [s |-> toast(h.s, "success",
                                    "SQL query generated and executed successfully!"),
                                  query |-> h.query, error |-> h.error,
                                  executed |-> h.executed, rowset |-> h.rowset,
                                  generated |-> g.sql]
                               : h \in {handleExecuteQuery(State, g.sql, currentQuery)} })} :
            /\ Render(r.s, [Op("naturalLanguageQuery", currentDbId, "", r.query, r.error,
                                r.executed, r.rowset, r.s)
                               EXCEPT !.generated = r.generated])
            /\ pending' = detached(r.s)
            /\ isExecuting' = IF r.query # "" /\ trimOf[r.query] # "" THEN FALSE
                              ELSE isExecuting

\* App.handleDropTable, for a table of the schema browser
HandleDropTable(tableName) ==
  /\ idb
  /\ \E i \in 1..Len(tables) : tables[i].name = tableName
  /\ \E query \in {"DROP TABLE " \o tableName} :
     \E r \in {executeQuery(State, query)} :
     \E s \in {IF r.error = ""
               THEN toast(r.s, "success", "Table deleted successfully")
               ELSE toast(r.s, "error", r.error)} :
        Commit(s, Op("executeQuery", currentDbId, "", query, r.error, r.executed, r.rowset, s))

\* the store starts to reject one kind of request (quota, blocked or closed
\* connection), and accepts every request again
StoreBreaks(request) ==
  /\ storeFails = ""
  /\ storeFails' = request
  /\ UNCHANGED <<now, idbDatabases, idbQueries, lastOpenedDatabase, idb, currentDb,
                 currentDbId, tables, queryHistory, databases, leaked, isExecuting,
                 pending, lastOp>>

StoreRecovers ==
  /\ storeFails # ""
  /\ storeFails' = ""
  /\ UNCHANGED <<now, idbDatabases, idbQueries, lastOpenedDatabase, idb, currentDb,
                 currentDbId, tables, queryHistory, databases, leaked, isExecuting,
                 pending, lastOp>>

\* the bytes stored under dbId are damaged outside the application
CorruptBlob(dbId, at) ==
  /\ dbId \in DOMAIN idbDatabases
  /\ ~isCorrupt(idbDatabases[dbId].data)
  /\ idbDatabases' = [idbDatabases EXCEPT ![dbId].data = corrupt(at)]
  /\ lastOp' = Op("corruptBlob", dbId, "", "", "", FALSE, FALSE,
                  [writes |-> <<>>, toasts |-> <<>>, failed |-> FALSE])
  /\ UNCHANGED <<now, idbQueries, lastOpenedDatabase, idb, currentDb, currentDbId,
                 tables, queryHistory, databases, leaked, storeFails, isExecuting,
                 pending>>

\* App.handleSaveQuery
SaveQuery(query) ==
  /\ idb
  /\ trimOf[query] # ""
  /\ \E s \in {saveQuery(State, query, null)} :
        Commit(s, [Op("saveQuery", currentDbId, "", query, "", FALSE, FALSE, s)
                     EXCEPT !.queryId = ToString(now)])

\* the delete button of a history entry
DeleteQuery(queryId) ==
  /\ idb
  /\ \E s \in {deleteQuery(State, queryId)} :
        Commit(s, [Op("deleteQuery", currentDbId, "", "", "", FALSE, FALSE, s)
                     EXCEPT !.queryId = queryId])

\* the star button of a history entry
ToggleFavorite(queryId) ==
  /\ idb
  /\ \E s \in {toggleFavorite(State, queryId)} :
        Commit(s, [Op("toggleFavorite", currentDbId, "", "", "", FALSE, FALSE, s)
                     EXCEPT !.queryId = queryId])

\* the saveDatabase the hook returns
PersistNow ==
  /\ idb
  /\ currentDb # nullDb
  /\ \E s \in {saveDatabase(State, closureDb, currentDbId)} :
        Commit(s, Op("saveDatabase", currentDbId, "", "", "", FALSE, FALSE, s))

Next ==
  \/ Tick
  \/ Reload
  \/ InitializeDatabase
  \/ \E name \in Names : CreateNewDatabase(name)
  \/ \E dbId \in DbIds : SwitchDatabase(dbId)
  \/ \E dbId \in DbIds : DeleteDatabase(dbId)
  \/ \E query \in Statements : HandleExecuteQuery(query)
  \/ \E tableName \in {"t"} : HandleDropTable(tableName)
  \/ SaveQuery(Select1)
  \/ PersistNow

Spec == Init /\ [][Next]_vars

\* The database lifecycle alone (no statement is executed), over a longer clock
NextCatalog ==
  \/ TickCatalog
  \/ Reload
  \/ InitializeDatabase
  \/ \E name \in Names : CreateNewDatabase(name)
  \/ \E dbId \in AllDbIds : SwitchDatabase(dbId)
  \/ \E dbId \in AllDbIds : DeleteDatabase(dbId)
  \/ SaveQuery(Select1)

SpecCatalog == Init /\ [][NextCatalog]_vars

\* databases of one name and the statements that change or read their structure
NextDDL ==
  \/ Tick
  \/ Reload
  \/ InitializeDatabase
  \/ \E name \in {"shop"} : CreateNewDatabase(name)
  \/ \E query \in DDLStatements : HandleExecuteQuery(query)
  \/ \E tableName \in {"t"} : HandleDropTable(tableName)
  \/ PersistNow

SpecDDL == Init /\ [][NextDDL]_vars

\* the saved queries: two databases of one name and every history operation
NextHistory ==
  \/ Tick
  \/ Reload
  \/ InitializeDatabase
  \/ \E name \in {"shop"} : CreateNewDatabase(name)
  \/ \E dbId \in DbIds : SwitchDatabase(dbId)
  \/ SaveQuery(Select1)
  \/ \E queryId \in QueryIds : DeleteQuery(queryId)
  \/ \E queryId \in QueryIds : ToggleFavorite(queryId)

SpecHistory == Init /\ [][NextHistory]_vars

\* the lifecycle and the history of one database while requests to the store
\* can be rejected
NextFailure ==
  \/ \E request \in StoreRequests : StoreBreaks(request)
  \/ StoreRecovers
  \/ Reload
  \/ InitializeDatabase
  \/ \E name \in {"shop"} : CreateNewDatabase(name)
  \/ \E dbId \in DbIds : SwitchDatabase(dbId)
  \/ \E dbId \in DbIds : DeleteDatabase(dbId)
  \/ SaveQuery(Select1)
  \/ PersistNow

SpecFailure == Init /\ [][NextFailure]_vars

\* databases of one name, the editor and the natural-language input
NextGenerate ==
  \/ Tick
  \/ Reload
  \/ InitializeDatabase
  \/ \E name \in {"shop"} : CreateNewDatabase(name)
  \/ \E query \in {CreateT, Select1} : HandleExecuteQuery(query)
  \/ \E tableName \in {"t"} : HandleDropTable(tableName)
  \/ \E response \in Responses, currentQuery \in EditorTexts :
        HandleNaturalLanguageQuery(response, currentQuery)

SpecGenerate == Init /\ [][NextGenerate]_vars

\* databases of one name and statements that name the table database_info
NextInfo ==
  \/ Tick
  \/ Reload
  \/ InitializeDatabase
  \/ \E name \in {"shop"} : CreateNewDatabase(name)
  \/ \E dbId \in DbIds : SwitchDatabase(dbId)
  \/ \E dbId \in DbIds : DeleteDatabase(dbId)
  \/ \E query \in {DropInfo, Select1} : HandleExecuteQuery(query)
  \/ PersistNow

SpecInfo == Init /\ [][NextInfo]_vars

\* one database and the ways to submit a statement while another is pending
NextConcurrent ==
  \/ InitializeDatabase
  \/ \E name \in {"shop"} : pending = <<>> /\ CreateNewDatabase(name)
  \/ \E way \in Ways, query \in {CreateT, InsertT, Select1, SelectT} :
        SubmitStatement(way, query)
  \/ \E i \in 1..MaxPending : FinishExecuteQuery(i)

SpecConcurrent == Init /\ [][NextConcurrent]_vars

\* the lifecycle while stored blobs get damaged
NextCorrupt ==
  \/ Tick
  \/ Reload
  \/ InitializeDatabase
  \/ \E name \in Names : CreateNewDatabase(name)
  \/ \E dbId \in DbIds : DeleteDatabase(dbId)
  \/ \E dbId \in DbIds, at \in Thrower : CorruptBlob(dbId, at)

SpecCorrupt == Init /\ [][NextCorrupt]_vars

\* databases of one name and the statements that attach a file under an alias
NextAttach ==
  \/ Tick
  \/ Reload
  \/ InitializeDatabase
  \/ \E name \in {"shop"} : CreateNewDatabase(name)
  \/ \E query \in {AttachExt, AttachSamples, Select1} : HandleExecuteQuery(query)

SpecAttach == Init /\ [][NextAttach]_vars

\* a statement whose save awaits the store while the database selector is used
NextPersist ==
  \/ Tick
  \/ InitializeDatabase
  \/ \E name \in {"shop"} : CreateNewDatabase(name)
  \/ \E dbId \in DbIds : SwitchDatabase(dbId)
  \/ \E dbId \in DbIds : DeleteDatabase(dbId)
  \/ \E query \in {CreateT, Select1} : BeginExecuteQuery(query)
  \/ \E i \in 1..MaxPending : FinishExecuteQuery(i)

SpecPersist == Init /\ [][NextPersist]_vars

TypeOK ==
  /\ now \in Times
  /\ DOMAIN idbDatabases \subseteq AllDbIds
  /\ currentDbId \in AllDbIds \cup {""}
  /\ leaked \in 0..MaxLeaked
  /\ (currentDb = nullDb) = (currentDbId = "")

-----------------------------------------------------------------------------
(* Properties *)

Range(seq) == {seq[i] : i \in 1..Len(seq)}

CatalogIds(list) == {list[i].id : i \in 1..Len(list)}

\* the step is a handler (not the clock) and the handler is op
Ran(op) == now' = now /\ lastOp'.op = op

\* C1: once deleteDatabase(id) has completed, the blob of id is gone from the
\* database store, no saved query with databaseId = id is left in the query
\* store, and the catalog has no entry for id.
C1_DeleteCascades ==
  lastOp.op = "deleteDatabase" =>
    /\ lastOp.dbId \notin DOMAIN idbDatabases
    /\ \A k \in DOMAIN idbQueries : idbQueries[k].databaseId # lastOp.dbId
    /\ lastOp.dbId \notin CatalogIds(databases)

\* a delete that removed a saved query of the database while another database stays
C1_Witness ==
  /\ lastOp.op = "deleteDatabase"
  /\ \E w \in Range(lastOp.writes) : w[1] = "delete" /\ w[2] = "queries"
  /\ DOMAIN idbDatabases # {}

\* C2: once execute has returned for a statement, the blob stored under the
\* active id holds the user tables of the live engine instance (the effect of
\* the statement is in the store).
C2_ExecutedStatementIsStored ==
  /\ lastOp.op = "executeQuery" /\ lastOp.error = ""
  /\ attachMatchOf[lastOp.query] = <<>>
  /\ currentDb # nullDb /\ currentDbId = lastOp.dbId
  => /\ currentDbId \in DOMAIN idbDatabases
     /\ idbDatabases[currentDbId].data.tables = currentDb.tables

\* C3: at most one engine instance is open: none has been left open without
\* being the current one.
C3_AtMostOneLiveInstance == leaked = 0

\* the last-opened record loadDatabaseList reads in the step: deleteDatabase(id)
\* removes the record first when it names id
Remembered ==
  IF lastOp'.op = "deleteDatabase" /\ lastOpenedDatabase = lastOp'.dbId
  THEN null ELSE lastOpenedDatabase

\* C4: when loadDatabaseList runs (on mount, after a delete), the database it
\* makes active is the remembered last-opened id if the filtered catalog has
\* it, else the currently active id if the catalog has it, else the entry with
\* the greatest lastModified; with an empty catalog nothing is active.
C4_SelectionPriority ==
  [][ Ran("initializeDatabase") \/ Ran("deleteDatabase") =>
        LET ids == CatalogIds(databases')
        IN IF ids = {} THEN currentDbId' = ""
           ELSE IF Remembered \in ids THEN currentDbId' = Remembered
           ELSE IF currentDbId \in ids THEN currentDbId' = currentDbId
           ELSE \E i \in 1..Len(databases') :
                   /\ databases'[i].id = currentDbId'
                   /\ \A j \in 1..Len(databases') :
                         databases'[j].lastModified <= databases'[i].lastModified ]_vars

\* the mount found two databases and activated the older one, the last opened
C4_Witness ==
  /\ lastOp.op = "initializeDatabase"
  /\ Len(databases) = 2
  /\ databases[1].lastModified > databases[2].lastModified
  /\ currentDbId = databases[2].id
  /\ lastOpenedDatabase = databases[2].id

\* C5: when deleteDatabase(id) removes the only database of the catalog, the
\* state after it has no active id, no engine instance, no table and no history.
C5_DeleteLastClearsSelection ==
  [][ Ran("deleteDatabase") /\ CatalogIds(databases) = {lastOp'.dbId} =>
        /\ currentDbId' = ""
        /\ currentDb' = nullDb
        /\ tables' = <<>>
        /\ queryHistory' = <<>>
        /\ databases' = <<>> ]_vars

\* the delete emptied the catalog of a database that was last opened and had
\* saved queries
C5_Witness ==
  /\ lastOp.op = "deleteDatabase"
  /\ databases = <<>>
  /\ currentDbId = ""
  /\ \E w \in Range(lastOp.writes) : w[1] = "removeItem"
  /\ \E w \in Range(lastOp.writes) : w[1] = "delete" /\ w[2] = "queries"

\* C6 as stated: for every name, after createNewDatabase(name) the catalog has
\* an entry with that name and the active id is that entry's id.
C6_CreatedIsCataloguedAndActive_AnyName ==
  lastOp.op = "createNewDatabase" =>
    \E i \in 1..Len(databases) :
       databases[i].name = lastOp.name /\ databases[i].id = currentDbId

\* C6: for every name that does not contain "sample" in any letter case, after
\* createNewDatabase(name) the catalog has an entry with that name and the
\* active id is that entry's id.
C6_CreatedIsCataloguedAndActive ==
  lastOp.op = "createNewDatabase" /\ ~includesSample[lastOp.name] =>
    \E i \in 1..Len(databases) :
       /\ databases[i].name = lastOp.name
       /\ databases[i].id = currentDbId
       /\ databases[i].id = lastOp.dbId

\* a second database was created while another one was active and last opened
C6_Witness ==
  /\ lastOp.op = "createNewDatabase"
  /\ ~includesSample[lastOp.name]
  /\ Len(databases) >= 2
  /\ currentDbId = lastOp.dbId

\* C7: an execute that returned a row set (SELECT 1 included) has written the
\* blob of the active database, and so has an execute of CREATE TABLE, DROP
\* TABLE or ALTER TABLE, whose stored blob has the table list after the change.
C7_RowSetAndDDLAreStored ==
  /\ lastOp.op = "executeQuery" /\ lastOp.error = ""
  /\ lastOp.rowset \/ lastOp.query \in {CreateT, DropT, AlterT}
  => /\ <<"put", "databases", lastOp.dbId>> \in Range(lastOp.writes)
     /\ lastOp.dbId \in DOMAIN idbDatabases
     /\ LET stored == idbDatabases[lastOp.dbId].data.tables
        IN /\ lastOp.query = CreateT => "t" \in DOMAIN stored
           /\ lastOp.query = DropT => "t" \notin DOMAIN stored
           /\ lastOp.query = AlterT =>
                /\ "t" \in DOMAIN stored
                /\ \E i \in 1..Len(stored["t"].columns) : stored["t"].columns[i].name = "y"

\* SELECT 1 returned its row and the blob of the active database was written
C7_Witness ==
  /\ lastOp.op = "executeQuery" /\ lastOp.error = ""
  /\ lastOp.query = Select1 /\ lastOp.rowset
  /\ <<"put", "databases", lastOp.dbId>> \in Range(lastOp.writes)
  /\ currentDbId = lastOp.dbId

\* the TableSchema list of an engine content with at most the table t
SchemaOfT(db) ==
  IF "t" \in DOMAIN db.tables
  THEN <<[name |-> "t", columns |-> db.tables["t"].columns,
          rowCount |-> Len(db.tables["t"].rows)]>>
  ELSE <<>>

C9_NoActiveDatabase ==
  [][ Ran("executeQuery") /\ currentDbId = "" =>
        /\ lastOp'.error = "No database selected"
        /\ ~lastOp'.executed
        /\ lastOp'.writes = <<>>
        /\ UNCHANGED <<idbDatabases, idbQueries, lastOpenedDatabase, databases,
                       tables, queryHistory, currentDb, currentDbId>> ]_vars

\* a statement was submitted with nothing selected while the store had a database
C9_Witness ==
  /\ lastOp.op = "executeQuery"
  /\ lastOp.error = "No database selected"
  /\ currentDbId = ""
  /\ DOMAIN idbDatabases # {}

\* C10: when the engine rejects the statement, executeQuery throws an error
\* whose message is the engine's diagnostic, and no store is written.
C10_EngineRejection ==
  [][ /\ Ran("executeQuery") /\ currentDb # nullDb
      /\ exec(currentDb, lastOp'.query).error # ""
      => /\ lastOp'.error = exec(currentDb, lastOp'.query).error
         /\ lastOp'.executed
         /\ lastOp'.writes = <<>>
         /\ UNCHANGED <<idbDatabases, idbQueries, lastOpenedDatabase>> ]_vars

\* CREATE TABLE was rejected for a table that exists and is stored
C10_Witness ==
  /\ lastOp.op = "executeQuery"
  /\ lastOp.error = "table t already exists"
  /\ lastOp.executed
  /\ currentDbId \in DOMAIN idbDatabases
  /\ "t" \in DOMAIN idbDatabases[currentDbId].data.tables

\* C11: switchDatabase(id) with no blob stored under id reports the failure to
\* its caller and leaves the active id, the engine instance, the last-opened
\* record, the table list and the history as they are.
C11_SwitchToMissingFails ==
  [][ Ran("switchDatabase") /\ lastOp'.dbId \notin DOMAIN idbDatabases =>
        /\ lastOp'.error # ""
        /\ <<"success", "Database switched successfully">> \notin Range(lastOp'.toasts)
        /\ UNCHANGED <<currentDbId, currentDb, lastOpenedDatabase, tables,
                       queryHistory>> ]_vars

\* C12: toggleFavorite(id) of a stored query changes only isFavorite of that
\* entry, and a second toggleFavorite(id) right after it brings the query
\* store back to what it was before the first.
C12_ToggleTwiceRestores ==
  [][ Ran("toggleFavorite") /\ lastOp'.queryId \in DOMAIN idbQueries =>
        /\ idbQueries' = [idbQueries EXCEPT ![lastOp'.queryId].isFavorite = ~@]
        /\ (toggleFavorite(State, lastOp.queryId))'.idbQueries = idbQueries ]_vars

\* a favourite of the active database was made by a toggle while another
\* saved query exists
C12_Witness ==
  /\ lastOp.op = "toggleFavorite"
  /\ lastOp.queryId \in DOMAIN idbQueries
  /\ idbQueries[lastOp.queryId].isFavorite
  /\ Cardinality(DOMAIN idbQueries) = 2
  /\ queryHistory # <<>>

\* the query store and the history view of a state a hook function returned
\* are those of the state after the step
SameHistory(s) == s.idbQueries = idbQueries' /\ s.queryHistory = queryHistory'

\* loadQueryHistory(dbId) done twice leaves the view that doing it once leaves,
\* and neither changes the query store
ReloadIdempotent ==
  \A dbId \in DbIds :
     LET once == (loadQueryHistory(State, dbId))'
         twice == loadQueryHistory(once, dbId)
     IN /\ twice.queryHistory = once.queryHistory
        /\ once.idbQueries = idbQueries' /\ twice.idbQueries = idbQueries'

\* C13 as stated: deleteQuery(id), toggleFavorite(id) and the reload of the
\* history, done a second time right after the first, leave the query store
\* and the history view as the first left them.
C13_AllButAppendIdempotent ==
  [][ /\ Ran("deleteQuery") => SameHistory((deleteQuery(State, lastOp.queryId))')
      /\ Ran("toggleFavorite") => SameHistory((toggleFavorite(State, lastOp.queryId))')
      /\ ReloadIdempotent ]_vars

\* C13: deleteQuery(id) and the reload of the history, done a second time
\* right after the first, leave the query store and the history view as the
\* first left them (toggleFavorite is left out: a second call undoes the first).
C13_RemoveAndReloadIdempotent ==
  [][ /\ Ran("deleteQuery") => SameHistory((deleteQuery(State, lastOp.queryId))')
      /\ ReloadIdempotent ]_vars

\* a stored query of the active database was deleted and another one stays in
\* the view
C13_Witness ==
  /\ lastOp.op = "deleteQuery"
  /\ <<"delete", "queries", lastOp.queryId>> \in Range(lastOp.writes)
  /\ lastOp.queryId \notin DOMAIN idbQueries
  /\ queryHistory # <<>>

\* C14: a saveQuery made while a database is active adds exactly one record to
\* the query store, under an id no stored record had, with isFavorite = false
\* and the active id as databaseId, and leaves every other record as it is; a
\* saveQuery made with no active database leaves the query store as it is.
C14_AppendAddsOneNewEntry ==
  [][ Ran("saveQuery") =>
        IF currentDbId = "" THEN idbQueries' = idbQueries
        ELSE /\ lastOp'.queryId \notin DOMAIN idbQueries
             /\ DOMAIN idbQueries' = DOMAIN idbQueries \cup {lastOp'.queryId}
             /\ \A k \in DOMAIN idbQueries : idbQueries'[k] = idbQueries[k]
             /\ ~idbQueries'[lastOp'.queryId].isFavorite
             /\ idbQueries'[lastOp'.queryId].databaseId = currentDbId ]_vars

\* C15: whenever a request to the store was rejected while a handler ran, the
\* handler raised an error notification.
C15_StoreFailureIsNotified ==
  lastOp.failed => \E t \in Range(lastOp.toasts) : t[1] = "error"

\* C16: when the request to the text-generation service failed, or the text
\* it returned is empty (also once the code fences and the white space around
\* it are removed), an error notification is raised and no statement reaches
\* the engine.
C16_GenerationFailureExecutesNothing ==
  lastOp.op = "naturalLanguageQuery" /\ lastOp.dbId # "" /\ lastOp.generated = "" =>
    /\ ~lastOp.executed
    /\ \E t \in Range(lastOp.toasts) : t[1] = "error"

\* C17: every blob of the database store holds the table database_info with
\* exactly one row, the row of the id the blob is stored under.
C17_BlobHasItsInfoRow ==
  \A id \in DOMAIN idbDatabases :
     /\ idbDatabases[id].data.infoTable
     /\ \E r \in idbDatabases[id].data.info :
           r.id = id /\ idbDatabases[id].data.info = {r}

\* C18: at most one handleExecuteQuery is in progress on the engine instance
\* at a time: none starts while another awaits the store.
C18_OneOperationInProgress == Len(pending) <= 1

\* the catalog entry of every database has the lastModified of the row
\* database_info of the blob stored under the entry's id
CatalogMatchesBlobs ==
  \A i \in 1..Len(databases) :
     /\ databases[i].id \in DOMAIN idbDatabases
     /\ \E r \in idbDatabases[databases[i].id].data.info :
           r.id = databases[i].id /\ r.last_modified = databases[i].lastModified

\* C19: once a handler that wrote a blob has finished (executeQuery,
\* createNewDatabase, the saveDatabase the hook returns), the lastModified of
\* every catalog entry is the one stored in the blob of its id.
C19_CatalogLastModifiedIsStored ==
  /\ lastOp.op \in {"executeQuery", "createNewDatabase", "saveDatabase"}
  /\ \E w \in Range(lastOp.writes) : w[1] = "put" /\ w[2] = "databases"
  => CatalogMatchesBlobs

\* C20: once a handleExecuteQuery has finished without error, the table list
\* is the projection of the user tables of the current engine instance: their
\* names, columns and row counts (no table when there is no instance).
C20_TableSchemaIsFresh ==
  lastOp.op = "executeQuery" /\ lastOp.error = "" =>
    tables = IF currentDb = nullDb THEN <<>> ELSE SchemaOfT(currentDb)

\* C21: the id createNewDatabase generates, and the id the ATTACH branch of
\* executeQuery generates, is the id of no blob of the database store, so the
\* blobs stored before stay as they are.
C21_GeneratedIdIsFresh ==
  [][ \/ Ran("createNewDatabase")
      \/ Ran("executeQuery") /\ lastOp'.error = "" /\ attachMatchOf[lastOp'.query] # <<>>
      => /\ DbId(now) \notin DOMAIN idbDatabases
         /\ \A id \in DOMAIN idbDatabases \ {lastOp'.dbId} :
               id \in DOMAIN idbDatabases' /\ idbDatabases'[id] = idbDatabases[id] ]_vars

\* C22: between handlers, the history view is the sequence of the stored
\* queries whose databaseId is the active id, by timestamp descending, and it
\* is empty when no database is active.
C22_HistoryViewIsActiveDatabase ==
  queryHistory = IF currentDbId = "" THEN <<>> ELSE dbQueries(idbQueries, currentDbId)

\* the view shows a query of the active database while the store also holds
\* a query of another database
C22_Witness ==
  /\ Len(queryHistory) = 1
  /\ queryHistory[1].databaseId = currentDbId
  /\ \E k \in DOMAIN idbQueries : idbQueries[k].databaseId # currentDbId

\* the row of database_info a stored blob holds for the id it is stored under
OwnRows(id) == {r \in idbDatabases[id].data.info : r.id = id}

\* the stored blobs the catalog lists: those with a row for their own id whose
\* id is no legacy literal and whose name has no "sample" in any letter case
Listed ==
  {id \in DOMAIN idbDatabases :
     /\ id \notin {"default", "sample"}
     /\ \E r \in OwnRows(id) : ~includesSample[r.name]}

\* the catalog has one entry for each listed blob, with the fields of its row,
\* and no other entry, by lastModified descending
CatalogIsListing ==
  /\ CatalogIds(databases) = Listed
  /\ Len(databases) = Cardinality(Listed)
  /\ \A i \in 1..Len(databases) :
        \E r \in OwnRows(databases[i].id) :
           databases[i] = [id |-> r.id, name |-> r.name, description |-> r.description,
                           createdAt |-> r.created_at, lastModified |-> r.last_modified]
  /\ \A i, j \in 1..Len(databases) :
        i < j => databases[i].lastModified >= databases[j].lastModified

\* C23: once a handler that ends with loadDatabaseList has finished (the
\* mount, createNewDatabase, deleteDatabase), the catalog is exactly the stored
\* blobs that have a row for their own id, without the legacy ids and the
\* names containing "sample", ordered by lastModified descending.
C23_CatalogIsFilteredAndSorted ==
  lastOp.op \in {"initializeDatabase", "createNewDatabase", "deleteDatabase"} =>
    CatalogIsListing

\* the catalog lists two databases, the younger first, and leaves out a
\* stored database whose name contains "sample"
C23_Witness ==
  /\ lastOp.op \in {"initializeDatabase", "createNewDatabase", "deleteDatabase"}
  /\ Len(databases) = 2
  /\ databases[1].lastModified > databases[2].lastModified
  /\ Cardinality(DOMAIN idbDatabases) = 3

\* the stored blobs that are database files
Valid == {id \in DOMAIN idbDatabases : ~isCorrupt(idbDatabases[id].data)}

\* the mount found a damaged blob: the catalog lists every other stored
\* database that passes the filter, and the selection logic has run on it
SkippedOnMount ==
  /\ CatalogIds(databases) =
        {id \in Valid : \E r \in OwnRows(id) : ~includesSample[r.name]}
  /\ IF databases = <<>> THEN currentDbId = "" /\ currentDb = nullDb
     ELSE currentDbId \in CatalogIds(databases) /\ currentDb # nullDb

\* C24: when the store holds a blob that is not a database file, the
\* loadDatabaseList of the mount skips it, lists every other stored database,
\* runs the selection logic, and leaves open no instance it created for the
\* loop.
C24_CorruptBlobIsSkipped ==
  lastOp.op = "initializeDatabase" /\ Valid # DOMAIN idbDatabases =>
    SkippedOnMount /\ leaked = 0

\* the step is an executeQuery, on an engine instance, of a statement that
\* matches the ATTACH pattern
RanAttach ==
  Ran("executeQuery") /\ currentDb # nullDb /\ attachMatchOf[lastOp'.query] # <<>>

\* the step stored a database named alias under the id it generated
Provisioned(alias) ==
  /\ <<"put", "databases", DbId(now)>> \in Range(lastOp'.writes)
  /\ DbId(now) \in DOMAIN idbDatabases'
  /\ \E r \in idbDatabases'[DbId(now)].data.info :
        r.id = DbId(now) /\ r.name = alias

\* the catalog after the step has the entry of that database
Catalogued(alias) ==
  \E i \in 1..Len(databases') :
     databases'[i].id = DbId(now) /\ databases'[i].name = alias

\* C25 as stated: an executeQuery of a statement that matches the ATTACH
\* pattern stores a database named after the alias and lists it in the
\* catalog, whether the engine accepted the statement or not.
C25_AttachAlwaysProvisions ==
  [][ RanAttach =>
        /\ Provisioned(attachMatchOf[lastOp'.query][2])
        /\ Catalogued(attachMatchOf[lastOp'.query][2]) ]_vars

\* C25: an executeQuery of a statement that matches the ATTACH pattern stores
\* a database named after the alias when the engine accepted the statement,
\* and the catalog lists it unless the alias contains "sample" in any letter
\* case; when the engine rejected the statement, nothing is stored and the
\* catalog stays as it is.
C25_AcceptedAttachProvisions ==
  [][ RanAttach =>
        LET alias == attachMatchOf[lastOp'.query][2]
        IN IF exec(currentDb, lastOp'.query).error # ""
           THEN lastOp'.writes = <<>> /\ UNCHANGED <<idbDatabases, databases>>
           ELSE /\ Provisioned(alias)
                /\ Catalogued(alias) = ~includesSample[alias] ]_vars

\* an accepted ATTACH ... AS ext added the database ext to a catalog that had
\* the active database
C25_Witness ==
  /\ lastOp.op = "executeQuery" /\ lastOp.query = AttachExt /\ lastOp.error = ""
  /\ Len(databases) = 2
  /\ \E i \in 1..2 : databases[i].name = "ext" /\ databases[i].id # lastOp.dbId
  /\ Cardinality(DOMAIN idbDatabases) = 2

\* C26: between handlers, an active database is a database the catalog lists.
C26_ActiveIsCatalogued ==
  currentDbId # "" => currentDbId \in CatalogIds(databases)

\* C27: between handlers, the last-opened record is the active id when a
\* database is active, and a record that is set names a stored blob.
C27_LastOpenedIsActive ==
  /\ currentDbId # "" => lastOpenedDatabase = currentDbId
  /\ lastOpenedDatabase # null => lastOpenedDatabase \in DOMAIN idbDatabases

\* the delete of the active, last-opened database made another stored
\* database active and last opened
C27_Witness ==
  /\ lastOp.op = "deleteDatabase"
  /\ <<"removeItem", "localStorage", "lastOpenedDatabase">> \in Range(lastOp.writes)
  /\ currentDbId # "" /\ currentDbId # lastOp.dbId
  /\ lastOpenedDatabase = currentDbId

\* C28: when the database of a handleExecuteQuery was deleted while its save
\* awaited the store, the blob of that database is still absent from the
\* database store once the handler has finished.
C28_DeleteIsNotUndone ==
  [][ /\ Ran("executeQuery") /\ Len(pending') < Len(pending)
      /\ lastOp'.dbId \notin DOMAIN idbDatabases
      => lastOp'.dbId \notin DOMAIN idbDatabases' ]_vars

\* the handler raised the success notification msg
Succeeded(msg) == <<"success", msg>> \in Range(lastOp.toasts)

\* C29: a handler that raised its success notification has taken effect:
\* after "Database switched successfully" the active id is the id asked for,
\* after "Database ... created successfully" the blob of the new database is
\* stored, after "Database deleted successfully" the blob is gone, and after
\* "SQL query generated and executed successfully!" the generated statement
\* has run without error.
C29_SuccessMeansEffect ==
  /\ lastOp.op = "switchDatabase" /\ Succeeded("Database switched successfully")
       => currentDbId = lastOp.dbId
  /\ lastOp.op = "createNewDatabase"
       /\ Succeeded("Database \"" \o lastOp.name \o "\" created successfully")
       => /\ lastOp.dbId \in DOMAIN idbDatabases
          /\ \E r \in OwnRows(lastOp.dbId) : r.name = lastOp.name
  /\ lastOp.op = "deleteDatabase" /\ Succeeded("Database deleted successfully")
       => lastOp.dbId \notin DOMAIN idbDatabases
  /\ lastOp.op = "naturalLanguageQuery"
       /\ Succeeded("SQL query generated and executed successfully!")
       => lastOp.executed /\ lastOp.error = ""

\* C30: toggleFavorite(id) and deleteQuery(id) for an id under which no query
\* is stored leave the query store as it is: no record is added, none is
\* changed, none is removed.
C30_AbsentIdLeavesQueriesAlone ==
  [][ /\ Ran("toggleFavorite") \/ Ran("deleteQuery")
      /\ lastOp'.queryId \notin DOMAIN idbQueries
      => /\ idbQueries' = idbQueries
         /\ \A w \in Range(lastOp'.writes) : w[1] # "put" ]_vars

\* toggleFavorite ran for an id under which nothing is stored, while the
\* store holds a query of the active database
C30_Witness ==
  /\ lastOp.op = "toggleFavorite"
  /\ lastOp.queryId \notin DOMAIN idbQueries
  /\ lastOp.writes = <<>>
  /\ \E k \in DOMAIN idbQueries : idbQueries[k].databaseId = currentDbId

====
